---------------------------- MODULE Spec2Model ----------------------------
(***************************************************************************)
(* A model of the terminal video player "window": the decoder task of      *)
(* Video::fetch_video, the forwarding loop of main, the render loop        *)
(* handle_render, the signal task, and the pure functions they call        *)
(* (write_frame, write_footer, rgb_distance, get_grey, step_size, ...).    *)
(*                                                                         *)
(* Numbers are modelled with the width the code gives them.  An f32 value  *)
(* v >= 0 is the pair <<m, e>> with v = m * 2^e and 2^23 <= m < 2^24 (or   *)
(* <<0, 0>>); every f32 operation rounds to nearest, ties to even, as the  *)
(* hardware does.  Times are whole microseconds.                           *)
(***************************************************************************)
EXTENDS Integers, Sequences, FiniteSets, TLC

(***************************************************************************)
(* Bounds of the model.                                                    *)
(***************************************************************************)
\* how many frames may wait in one channel before its producer is held back
MaxQueue == 2

\* how many seek keys a session sees
MaxSeeks == 1

\* how many of a session's first frames may take long to paint or fail to
\* be written, and before how many frames seen a seek key is pressed
MaxJitter == 2

(***************************************************************************)
(* Arithmetic helpers.                                                     *)
(***************************************************************************)
Max(a, b) == IF a >= b THEN a ELSE b

Min(a, b) == IF a <= b THEN a ELSE b

Pow2(n) == IF n <= 0 THEN 1 ELSE 2 ^ n

\* number of decimal digits of n >= 0, as format!("{}", n) prints it
RECURSIVE Digits(_)
Digits(n) == IF n < 10 THEN 1 ELSE 1 + Digits(n \div 10)

F32Zero == <<0, 0>>

\* the long division a / b carried on until the quotient has 24 bits:
\* <<q, r, k>> with a / b = (q + r / b) * 2^-k
RECURSIVE DivNorm(_, _, _, _)
DivNorm(q, r, b, k) ==
    IF q >= 8388608 THEN <<q, r, k>>
    ELSE IF 2 * r >= b THEN DivNorm(2 * q + 1, 2 * r - b, b, k + 1)
    ELSE DivNorm(2 * q, 2 * r, b, k + 1)

\* a as f32 / b as f32 for integers 0 <= a < 2^24, 0 < b < 2^24
F32Div(a, b) ==
    IF a = 0 THEN F32Zero
    ELSE LET d  == DivNorm(a \div b, a % b, b, 0)
             q  == d[1]
             r  == d[2]
             up == (2 * r > b) \/ (2 * r = b /\ q % 2 = 1)
             m  == IF up THEN q + 1 ELSE q
         IN  IF m = 16777216 THEN <<8388608, 1 - d[3]>> ELSE <<m, -d[3]>>

\* the integer n * 2^e (0 <= n < 2^31) rounded to f32
F32Round(n, e) ==
    IF n = 0 THEN F32Zero
    ELSE LET s    == CHOOSE t \in 0..8 :
                        /\ n \div Pow2(t) < 16777216
                        /\ (t = 0 \/ n \div Pow2(t - 1) >= 16777216)
             q    == n \div Pow2(s)
             r    == n % Pow2(s)
             half == Pow2(s - 1)
             up   == s > 0 /\ (r > half \/ (r = half /\ q % 2 = 1))
             m    == IF up THEN q + 1 ELSE q
         IN  IF m = 16777216 THEN <<8388608, e + s + 1>> ELSE <<m, e + s>>

\* f32::round of v = <<m, e>>, 0 <= v < 2^24: nearest integer, halves away
\* from zero
F32RoundToInt(v) ==
    LET m == v[1]
        e == v[2]
    IN  IF m = 0 THEN 0
        ELSE IF e >= 0 THEN m * Pow2(e)
        ELSE IF -e > 25 THEN 0
        ELSE LET p == Pow2(-e)
             IN  (m \div p) + (IF 2 * (m % p) >= p THEN 1 ELSE 0)

\* the number of bits of 0 <= n < 2^30
BitLen(n) == CHOOSE k \in 0..30 : n < 2 ^ k /\ (k = 0 \/ n >= 2 ^ (k - 1))

\* the integer (t * 4096 + l) * 2^e rounded to f32, for 0 <= t < 2^30 and
\* 0 <= l < 4096 (a product too wide for 32-bit integers)
F32Round2(t, l, e) ==
    IF t < 4096 THEN F32Round(t * 4096 + l, e)
    ELSE IF t < 16777216
    THEN LET s  == BitLen(t) - 12
             q  == t * Pow2(12 - s) + (l \div Pow2(s))
             r  == l % Pow2(s)
             h  == Pow2(s - 1)
             up == r > h \/ (r = h /\ q % 2 = 1)
             m  == IF up THEN q + 1 ELSE q
         IN  IF m = 16777216 THEN <<8388608, e + s + 1>> ELSE <<m, e + s>>
    ELSE LET s  == BitLen(t) - 24
             q  == t \div Pow2(s)
             r  == t % Pow2(s)
             h  == Pow2(s - 1)
             up == r > h \/ (r = h /\ (l > 0 \/ q % 2 = 1))
             m  == IF up THEN q + 1 ELSE q
         IN  IF m = 16777216 THEN <<8388608, e + 12 + s + 1>>
             ELSE <<m, e + 12 + s>>

\* v * (n as f32) for an f32 v and an integer 0 <= n < 2^16
F32MulInt(v, n) ==
    LET a == (v[1] \div 4096) * n
        b == (v[1] % 4096) * n
    IN  CHOOSE y \in { F32Round2(x[1], x[2], x[3]) :
                        x \in {<<a + (b \div 4096), b % 4096, v[2]>>} } : TRUE

\* v / (d as f32) for an f32 v and an integer 0 < d < 2^24
F32DivInt(v, d) ==
    LET q == F32Div(v[1], d)
    IN  IF v[1] = 0 THEN F32Zero ELSE <<q[1], q[2] + v[2]>>

\* v as u64 / v as usize for an f32 v >= 0: the integer part
F32Trunc(v) ==
    IF v[1] = 0 THEN 0
    ELSE IF v[2] >= 0 THEN v[1] * Pow2(v[2])
    ELSE IF -v[2] > 24 THEN 0
    ELSE v[1] \div Pow2(-v[2])

\* (d as f32 - v) < 0.05 for an integer 0 <= d < 2^24 and an f32 v >= 0.
\* 0.05f32 is 13421773 * 2^-28.  The f32 subtraction is exact wherever the
\* comparison is close: for d / 2 <= v <= 2 d by Sterbenz' lemma, and
\* otherwise the difference is below 0 or above 1 / 2.
F32SubLt005(d, v) ==
    LET m == v[1]
        k == -v[2]
    IN  IF m = 0 THEN d = 0
        ELSE IF k < 0 THEN TRUE
        ELSE IF k > 24 THEN d = 0
        ELSE IF d > Pow2(24 - k) THEN FALSE
        ELSE LET diff == d * Pow2(k) - m
             IN  IF diff <= 0 THEN TRUE
                 ELSE IF diff >= Pow2(k) THEN FALSE
                 ELSE diff * Pow2(28 - k) < 13421773

(***************************************************************************)
(* utils/rgb_distance.rs, utils/get_grey.rs, utils/step_size.rs            *)
(***************************************************************************)
\* r.mul_add(r, g.mul_add(g, b * b)): the squared distance.  Every
\* intermediate value is an integer below 2^24, so the f32 arithmetic is exact.
RgbDistanceSq(p, q) ==
    LET r == p[1] - q[1]
        g == p[2] - q[2]
        b == p[3] - q[3]
    IN  r * r + (g * g + b * b)

\* a comparison that leaves out the threshold itself
rgb_distance_gt(p, q, t) ==
    IF t > 441 THEN FALSE ELSE RgbDistanceSq(p, q) > t * t

\* rgb_distance(p, q) >= t as f32, for t: u16.  The distance is the f32 square
\* root of RgbDistanceSq, which is correctly rounded and monotonic; the square
\* root of an integer below t * t is below t - 1 / (2 t), more than half an
\* ulp under t for every t <= 441, so it never rounds up to t, and for
\* t > 441 no distance (at most sqrt(195075) < 442) reaches t.
rgb_distance_ge(p, q, t) ==
    IF t > 441 THEN FALSE ELSE RgbDistanceSq(p, q) >= t * t

\* The colours for which 0.2126 r + 0.7152 g + 0.0722 b is a whole number
\* that the two fused multiply-adds of get_grey miss from below (found by
\* evaluating get_grey in f32 on all 2^24 colours).
GreyRoundsDown ==
    { <<193, 3, 233>>, <<29, 3, 245>>, <<33, 6, 65>>, <<115, 7, 243>>,
      <<34, 8, 250>>, <<66, 12, 130>>, <<179, 16, 187>>, <<211, 20, 67>>,
      <<67, 40, 99>>, <<126, 44, 38>>, <<230, 67, 238>>, <<232, 69, 240>>,
      <<155, 74, 251>>, <<187, 78, 131>>, <<241, 78, 249>>, <<242, 79, 250>>,
      <<134, 80, 198>>, <<219, 83, 195>>, <<166, 84, 78>>, <<251, 87, 75>>,
      <<252, 88, 76>>, <<230, 93, 22>>, <<177, 95, 89>>, <<155, 100, 35>>,
      <<155, 101, 219>>, <<241, 104, 33>>, <<187, 105, 99>>, <<166, 111, 46>>,
      <<91, 119, 243>>, <<155, 127, 3>>, <<203, 175, 51>> }

\* get_grey(r, g, b): the luma truncated to u8
get_grey(c) ==
    LET e == (2126 * c[1] + 7152 * c[2] + 722 * c[3]) \div 10000
    IN  IF c \in GreyRoundsDown THEN e - 1 ELSE e

\* what a panicking evaluation yields in place of a number
Panic == 0 - 1

\* step_size() for a terminal of width x height cells (u16).  height - 2
\* underflows for height < 2: a panic when overflow checks are compiled in,
\* the wrapped u16 otherwise; height = 2 divides by zero and always panics.
step_size(width, height, overflow_checks) ==
    IF height = 2 THEN Panic
    ELSE IF height < 2 /\ overflow_checks THEN Panic
    ELSE LET rows == IF height < 2 THEN height - 2 + 65536 ELSE height - 2
         IN  Max(Max((width \div rows) - 2, 0), 2)

(***************************************************************************)
(* Video::write_frame (video.rs)                                           *)
(***************************************************************************)
CharacterModes ==
    {"Block", "Dots", "Ascii", "AsciiExtended", "AsciiWindows", "Numbers", "Blocks"}

\* the ramp of a mode: its length and whether its last glyph is ' '
Ramp(mode) ==
    CASE mode = "Block"         -> [len |-> 1,  blank_last |-> FALSE]
      [] mode = "Dots"          -> [len |-> 1,  blank_last |-> FALSE]
      [] mode = "Ascii"         -> [len |-> 10, blank_last |-> TRUE]
      [] mode = "AsciiExtended" -> [len |-> 72, blank_last |-> FALSE]
      [] mode = "AsciiWindows"  -> [len |-> 92, blank_last |-> TRUE]
      [] mode = "Numbers"       -> [len |-> 10, blank_last |-> FALSE]
      [] mode = "Blocks"        -> [len |-> 2,  blank_last |-> FALSE]

\* ramp.len() after the no-colour blank has been appended
RampLen(mode, no_color) ==
    IF no_color /\ ~Ramp(mode).blank_last THEN Ramp(mode).len + 1
    ELSE Ramp(mode).len

\* an index that truncates instead of rounding
RampIndexTruncated(grey, ramp_len) == (grey * (ramp_len - 1)) \div 255

\* (grey as f32 / 255.0 * (ramp_len - 1.0)).round() as usize
RampIndexOf(grey, ramp_len) ==
    LET q == F32Div(grey, 255)
    IN  F32RoundToInt(F32Round(q[1] * (ramp_len - 1), q[2]))

\* every ramp length write_frame can meet
RampLens == { RampLen(mode, nc) : mode \in CharacterModes, nc \in BOOLEAN }

\* the index of every brightness on every ramp, computed once
RampIndexTable == [len \in RampLens |-> [grey \in 0..255 |-> RampIndexOf(grey, len)]]

ramp_index(grey, ramp_len) == RampIndexTable[ramp_len][grey]

NoColour == <<>>

NoFrame == [w |-> 0, h |-> 0, px |-> <<>>]

Cmd(op, col, row, colour, glyph) ==
    [op |-> op, col |-> col, row |-> row, colour |-> colour, glyph |-> glyph]

\* the cells write_frame visits, in its order: every step-th pixel row, and
\* in it every column
SampledCells(frame, step) ==
    LET nr == (frame.h + step - 1) \div step
    IN  [i \in 1..(nr * frame.w) |->
            <<(i - 1) % frame.w, ((i - 1) \div frame.w) * step>>]

\* a needs_update that diffs the first frame against a black screen
needs_update_against_black(last_frame, frame, cell, pixel_clear_distance) ==
    rgb_distance_ge(frame.px[cell],
                    IF last_frame # NoFrame THEN last_frame.px[cell] ELSE <<0, 0, 0>>,
                    pixel_clear_distance)

\* needs_update of one cell
needs_update(last_frame, frame, cell, pixel_clear_distance) ==
    IF last_frame # NoFrame
    THEN rgb_distance_ge(frame.px[cell], last_frame.px[cell], pixel_clear_distance)
    ELSE TRUE

\* the foreground colour of a mode
ForegroundOf(mode, pixel) ==
    IF mode \in {"Block", "Dots"} THEN pixel ELSE <<128, 128, 128>>

\* a comparison that never finds the colour unchanged
colour_always_set(last, colour) == TRUE

\* last_bg != Some(colour), last_fg != Some(colour): last is NoColour for None
colour_changed(last, colour) == last # colour

\* the body of the two loops for one cell; st is the loop's state: the
\* commands queued so far, last_bg, last_fg, and whether a panic ended it
PaintCell(st, cell, last_frame, frame, v, step, x_offset, y_offset) ==
    IF st.res # "ok" THEN st
    ELSE IF last_frame # NoFrame /\ cell \notin DOMAIN last_frame.px
    THEN [st EXCEPT !.res = "panic"]
    ELSE IF ~needs_update(last_frame, frame, cell, v.pixel_clear_distance) THEN st
    ELSE LET pixel == frame.px[cell]
             glyph == ramp_index(get_grey(pixel), RampLen(v.character_mode, v.no_color))
             col   == (cell[1] + x_offset) % 65536
             row   == ((cell[2] \div step) + y_offset) % 65536
             move  == Cmd("MoveTo", col, row, NoColour, 0)
             print == Cmd("Print", 0, 0, NoColour, glyph)
             color == ForegroundOf(v.character_mode, pixel)
         IN  IF v.no_color
             THEN [st EXCEPT !.cmds = st.cmds \o <<move, print>>]
             ELSE [st EXCEPT
                     !.cmds = st.cmds
                         \o (IF colour_changed(st.last_bg, pixel)
                             THEN <<Cmd("SetBackgroundColor", 0, 0, pixel, 0)>>
                             ELSE <<>>)
                         \o <<move>>
                         \o (IF colour_changed(st.last_fg, color)
                             THEN <<Cmd("SetForegroundColor", 0, 0, color, 0)>>
                             ELSE <<>>)
                         \o <<print>>,
                     !.last_bg = pixel,
                     !.last_fg = color]

RECURSIVE PaintCells(_, _, _, _, _, _, _, _, _)
PaintCells(st, cells, i, last_frame, frame, v, step, x_offset, y_offset) ==
    IF i > Len(cells) THEN st
    ELSE PaintCells(
            PaintCell(st, cells[i], last_frame, frame, v, step, x_offset, y_offset),
            cells, i + 1, last_frame, frame, v, step, x_offset, y_offset)

\* write_frame(&mut self, frame, stdout) on a terminal of term = <<cols, rows>>.
\* fail_at = k > 0 makes the k-th queue! return an I/O error (0: none does).
\* The result is how the call ended, the commands queued, and self.last_frame
\* after it.  (self.frame_times, which write_frame also appends to, is read by
\* nothing and is left out.)
write_frame(last_frame, frame, term, v, overflow_checks, fail_at) ==
    LET step     == step_size(term[1], term[2], overflow_checks)
        x_offset == IF frame.w < term[1] THEN (term[1] - frame.w) \div 2 ELSE 0
        y_offset == IF ~v.fullscreen THEN 2 ELSE 0
        st0      == [res |-> "ok", last_bg |-> NoColour, last_fg |-> NoColour,
                     cmds |-> IF v.no_color
                              THEN <<Cmd("SetBackgroundColor", 0, 0, <<0, 0, 0>>, 0)>>
                              ELSE <<>>]
        st       == PaintCells(st0, SampledCells(frame, step), 1, last_frame, frame,
                               v, step, x_offset, y_offset)
    IN  IF step = Panic
        THEN [res |-> "panic", cmds |-> <<>>, last_frame |-> last_frame]
        ELSE IF fail_at > 0 /\ fail_at <= Len(st.cmds)
        THEN [res |-> "err", cmds |-> SubSeq(st.cmds, 1, fail_at - 1),
              last_frame |-> last_frame]
        ELSE IF st.res = "panic"
        THEN [res |-> "panic", cmds |-> st.cmds, last_frame |-> last_frame]
        ELSE [res |-> "ok", cmds |-> st.cmds, last_frame |-> frame]

(***************************************************************************)
(* The texts of the status line (main.rs, video.rs, utils/format_time.rs)  *)
(* as their lengths in characters.                                         *)
(***************************************************************************)
\* format_time(t).len(): "{:02}:{:02}:{:02}"
format_time_len(t) == Max(2, Digits(t \div 3600)) + 6

\* calculate_fps(frame_times): 0 for fewer than 10 timestamps or no time
\* between the first and the last, else their count over the seconds between
\* them; the rational <<numerator, denominator>>
calculate_fps(times) ==
    IF Len(times) < 10 THEN <<0, 1>>
    ELSE IF times[Len(times)] - times[1] = 0 THEN <<0, 1>>
    ELSE <<Len(times) * 1000000, times[Len(times)] - times[1]>>

\* how "{:.0}" prints a rate: the nearest integer, halves to even
RoundedRate(rate) ==
    LET q == rate[1] \div rate[2]
        r == rate[1] % rate[2]
    IN  IF 2 * r > rate[2] \/ (2 * r = rate[2] /\ q % 2 = 1) THEN q + 1 ELSE q

\* format!("FPS: {:.0}/{}", render_fps, fps).len()
fps_text_len(render_fps, fps) == 5 + Digits(RoundedRate(render_fps)) + 1 + Digits(fps)

\* format!("{:>6}ms", format!("{:.2}", elapsed_ms)).len() for a latency in
\* microseconds
frame_time_len(elapsed) ==
    LET hundredths == (elapsed \div 10) + (IF elapsed % 10 >= 5 THEN 1 ELSE 0)
    IN  Max(6, Digits(hundredths \div 100) + 3) + 2

\* what dividing a positive f32 by 0.0 gives
Infinite == <<1, 1000>>

\* the frame rates of the sessions played, and their durations in seconds
Rates == {1, 20, 30}

DurationSecs == {0, 1, 2, 3, 7, 360000}

\* the playback positions a session of fps frames a second can come to:
\* those of its frames, and 5 s further for every seek
Positions(fps) == 0..(50 + 5 * fps * MaxSeeks)

\* current_time = frames_seen as f32 / fps as f32, computed once for every
\* position
CurrentTimes == [fps \in Rates |-> [n \in Positions(fps) |-> F32Div(n, fps)]]

\* the time of the frame before the one counted last
current_time_before(frames_seen, fps) == CurrentTimes[fps][Max(frames_seen - 1, 0)]

current_time_of(frames_seen, fps) == CurrentTimes[fps][frames_seen]

AllTimes == UNION { { CurrentTimes[fps][n] : n \in Positions(fps) } : fps \in Rates }

\* progress = current_time / duration as f32 (current_time > 0), computed
\* once for every time and duration
ProgressTable ==
    [secs \in DurationSecs |->
        [t \in AllTimes |-> IF secs = 0 THEN Infinite ELSE F32DivInt(t, secs)]]

Progress(t, secs) == ProgressTable[secs][t]

\* (duration as f32 - current_time) < 0.05, computed once for every time and
\* duration
ReachedTable ==
    [secs \in DurationSecs |-> [t \in AllTimes |-> F32SubLt005(secs, t)]]

\* (progress * (space as f32)) as usize for 0 <= space < 2^16; the cast of
\* an infinite product saturates and that of infinity * 0.0, not a number,
\* gives 0.  A value above 2^16 stands for every larger one.
WatchedSpace(progress, space) ==
    IF progress = Infinite THEN (IF space = 0 THEN 0 ELSE 65536)
    ELSE CHOOSE y \in { F32Trunc(x) : x \in {F32MulInt(progress, space)} } : TRUE

\* how a footer composition that cannot finish ends
FooterFailed(how) ==
    [res |-> how, dropped |-> FALSE, space |-> 0, watched |-> 0, remaining |-> 0,
     line_len |-> 0]

\* the footer of handle_render (main.rs) for a terminal wid columns wide.
\* current_time is an f32, duration a DurationType, since_start the
\* microseconds from started to start.  Its subtractions are unchecked:
\* below zero they panic in a build with overflow checks and wrap to about
\* 2^64 in one without, where String::repeat then panics on a capacity above
\* isize::MAX or aborts the process on an allocation it cannot get.
footer_main(wid, current_time, duration, fps_len, ft_len, since_start, checks) ==
    LET cur_len == format_time_len(F32Trunc(current_time))
    IN  IF duration.kind = "Fixed"
        THEN LET progress == Progress(current_time, duration.secs)
                 dur_len  == format_time_len(duration.secs)
                 space    == wid - cur_len - dur_len - fps_len - ft_len - 10
                 watched  == WatchedSpace(progress, space)
             IN  IF space < 0
                 THEN IF checks \/ progress = Infinite \/ progress[1] = 0
                         \/ progress[2] >= -24
                      THEN FooterFailed("panic")
                      ELSE FooterFailed("abort")
                 ELSE IF watched > space THEN FooterFailed("panic")
                 ELSE [res |-> "ok", dropped |-> FALSE, space |-> space,
                       watched |-> watched, remaining |-> space - watched,
                       line_len |-> cur_len + dur_len + fps_len + ft_len + space + 8]
        ELSE LET space   == wid - cur_len - 4 - fps_len - ft_len - 7 - 9
                 watched == IF space > 0 THEN (since_start \div 100000) % space ELSE 0
             IN  IF space < 0 THEN FooterFailed("panic")
                 ELSE [res |-> "ok", dropped |-> FALSE, space |-> space,
                       watched |-> watched, remaining |-> space - watched,
                       line_len |-> cur_len + 4 + fps_len + ft_len + space + 15]

\* Video::write_footer (video.rs) for a terminal width columns wide; fps_len
\* is the length of the unpadded "FPS: .." text, which it pads to 11
write_footer(width, current_time, duration, fps_len, ft_len, since_start, checks) ==
    LET cur_len  == format_time_len(F32Trunc(current_time))
        fps_text == Max(11, fps_len)
    IN  IF duration.kind = "Fixed"
        THEN LET progress == Progress(current_time, duration.secs)
                 dur_len  == format_time_len(duration.secs)
                 space0   == Max(width - (cur_len + dur_len + fps_text + ft_len + 10), 0)
                 dropped  == space0 < 1
                 space    == IF dropped THEN Max(width - (cur_len + dur_len + 8), 0)
                             ELSE space0
                 texts    == IF dropped THEN 0 ELSE fps_text + ft_len
                 watched  == WatchedSpace(progress, space)
             IN  IF watched > space THEN FooterFailed("panic")
                 ELSE [res |-> "ok", dropped |-> dropped, space |-> space,
                       watched |-> watched, remaining |-> space - watched,
                       line_len |-> cur_len + dur_len + texts + space + 8]
        ELSE LET space   == width - cur_len - 4 - fps_text - ft_len - 7 - 9
                 watched == IF space > 0 THEN (since_start \div 100000) % space ELSE 0
             IN  IF space < 0 THEN FooterFailed("panic")
                 ELSE [res |-> "ok", dropped |-> FALSE, space |-> space,
                       watched |-> watched, remaining |-> space - watched,
                       line_len |-> cur_len + 4 + fps_text + ft_len + space + 15]

\* the header of handle_render: cols - playing_text.len() - resolution_text.len()
\* is unchecked too; TRUE when it cannot be composed
header_fails(cols, rows, title_len) ==
    cols - (11 + title_len) - (12 + Digits(cols) + 1 + Digits(rows)) < 0

\* (duration as f32 - current_time) < 0.05 with
\* current_time = frames_seen as f32 / fps as f32
duration_reached(duration, frames_seen, fps) ==
    /\ duration.kind = "Fixed"
    /\ ReachedTable[duration.secs][current_time_of(frames_seen, fps)]

(***************************************************************************)
(* State.                                                                  *)
(***************************************************************************)
VARIABLES
    video,            \* the Video struct's settings and the probed title and
                      \* fps (fixed after start)
    overflow_checks,  \* whether the build panics on integer overflow
    duration,         \* the DurationType sent with every frame
    stream_len,       \* how many pictures the source holds
    term,             \* terminal::size(): <<columns, rows>>
    tty,              \* the terminal: cursor shown, colours set since the
                      \* last reset, screen still clear
    last_frame,       \* Video::last_frame (NoFrame: None)
    out,              \* the commands the latest write_frame queued
    wf,               \* the latest write_frame call: its result, its frame,
                      \* last_frame and the terminal size when it was made, and
                      \* whether the terminal size differed at the call before
    dec,              \* the decoder task: the position it decodes next, the
                      \* seeks it applied, whether it still runs
    seek_ch,          \* seek_tx -> seek_rx: the seek targets not yet received
    frame_ch,         \* frame_tx -> frames_recv
    render_ch,        \* render_tx -> render_recv
    main_pc,          \* main: "forward" (lines 72-74), "join" (line 76),
                      \* "returned"
    render_pc,        \* handle_render: "start", "recv" (line 142), "pace"
                      \* (lines 155-157), "err" (returned Err), "panic"
    frames_seen,      \* the playback position
    loc,              \* handle_render's locals of the iteration under way
    frame_times,      \* handle_render's frame_times
    now,              \* the clock, in microseconds
    started,          \* handle_render's started
    ft,               \* the latest footer composed
    proc,             \* the process: "running", "exit0" (exit(0)), "exit1"
                      \* (main returned an error), "panic" (main panicked),
                      \* "abort"
    sent,             \* the frames the decoder sent since the latest seek key,
                      \* in order
    painted,          \* the frames write_frame painted since the latest seek
                      \* key, in order, each with whether the decoder had
                      \* applied a seek after decoding it
    seeks             \* how many seek keys were pressed

frameVars == <<video, overflow_checks, term, tty, last_frame, out, wf>>

pipeVars ==
    <<duration, stream_len, dec, seek_ch, frame_ch, render_ch, main_pc, render_pc,
      frames_seen, loc, frame_times, now, started, ft, proc, sent, painted, seeks>>

vars == <<frameVars, pipeVars>>

(***************************************************************************)
(* Inputs of the model.                                                    *)
(***************************************************************************)
Black == <<0, 0, 0>>

\* Dim is closer than 2 to Black and to Green, which are 2 apart
Dim == <<1, 1, 0>>

Green == <<0, 2, 0>>

Palette == {Black, Dim, Green}

FrameSizes == {<<1, 3>>, <<2, 3>>}

\* the frames of each size: of 1 x 3 pixels, any colours in the two rows a
\* stride of 2 samples and black or green between them; of 2 x 3 pixels,
\* black or green in the sampled rows and black between them
Frames ==
    [size \in FrameSizes |->
        LET cells == (0..(size[1] - 1)) \X (0..(size[2] - 1))
            cols  == IF size[1] = 1 THEN Palette ELSE {Black, Green}
            mid   == IF size[1] = 1 THEN {Black, Green} ELSE {Black}
        IN  { [w |-> size[1], h |-> size[2], px |-> f] :
                f \in { g \in [cells -> Palette] :
                          \A c \in cells :
                             g[c] \in (IF c[2] % 2 = 1 THEN mid ELSE cols) } }]

\* 80x24 gives a stride of 2 and 110x24 a stride of 3, with different offsets
TermSizes == {<<80, 24>>, <<110, 24>>}

FrameConfigs ==
    { [character_mode |-> "Block", no_color |-> FALSE, fullscreen |-> FALSE,
       pixel_clear_distance |-> 2],
      [character_mode |-> "Ascii", no_color |-> FALSE, fullscreen |-> TRUE,
       pixel_clear_distance |-> 2],
      [character_mode |-> "Blocks", no_color |-> TRUE, fullscreen |-> FALSE,
       pixel_clear_distance |-> 2],
      [character_mode |-> "Dots", no_color |-> FALSE, fullscreen |-> FALSE,
       pixel_clear_distance |-> 0] }

\* which queue! of a write_frame call fails (0: none)
FailAts == {0, 2}

NoCall ==
    [res |-> "none", frame |-> NoFrame, before |-> NoFrame, term |-> <<0, 0>>,
     resized |-> FALSE]

Fixed(secs) == [kind |-> "Fixed", secs |-> secs]

Live == [kind |-> "Live", secs |-> 0]

NoLocals ==
    [item |-> [pos |-> 0, gen |-> 0], wid |-> 0, height |-> 0, start |-> 0,
     elapsed |-> 0, sleep_duration |-> 0, slept |-> 0, window |-> <<>>]

NoFooter == FooterFailed("none")

\* the terminal as main leaves it before it spawns the tasks (lines 60-63):
\* cleared, cursor hidden
PreparedTty == [cursor |-> FALSE, coloured |-> FALSE, cleared |-> TRUE]

\* the state of the tasks when nothing of the pipeline runs
PipeIdle ==
    /\ duration = Live
    /\ stream_len = 0
    /\ dec = [pos |-> 0, gen |-> 0, open |-> FALSE]
    /\ seek_ch = <<>>
    /\ frame_ch = <<>>
    /\ render_ch = <<>>
    /\ main_pc = "forward"
    /\ render_pc = "recv"
    /\ frames_seen = 0
    /\ loc = NoLocals
    /\ frame_times = <<>>
    /\ now = 0
    /\ started = 0
    /\ ft = NoFooter
    /\ proc = "running"
    /\ sent = <<>>
    /\ painted = <<>>
    /\ seeks = 0

(***************************************************************************)
(* The differential renderer on its own: write_frame applied to any        *)
(* sequence of frames of the session's size, on a terminal that may be     *)
(* resized between two frames.                                             *)
(***************************************************************************)
InitFrame ==
    /\ \E c \in FrameConfigs, size \in FrameSizes :
          video = c @@ [render_size |-> size, fps |-> 30, cap_framerate |-> TRUE,
                        title_len |-> 5]
    /\ overflow_checks = TRUE
    /\ term \in TermSizes
    /\ tty = PreparedTty
    /\ last_frame = NoFrame
    /\ out = <<>>
    /\ wf = NoCall
    /\ PipeIdle

\* the terminal after the commands cmds
TtyAfter(cmds) ==
    [tty EXCEPT
       !.coloured = tty.coloured
                      \/ \E i \in DOMAIN cmds :
                            cmds[i].op \in {"SetBackgroundColor", "SetForegroundColor"},
       !.cleared = tty.cleared /\ \A i \in DOMAIN cmds : cmds[i].op # "Print"]

\* a call that keeps the frame it was given however it ended
WriteFrameKeepsAny(r, frame) ==
    /\ last_frame' = frame
    /\ out' = r.cmds
    /\ tty' = TtyAfter(r.cmds)
    /\ wf' = [res |-> r.res, frame |-> frame, before |-> last_frame,
              term |-> term,
              resized |-> wf.res # "none" /\ wf.term # term]

\* what one call of write_frame does to the renderer's state; r is its result
WriteFrameResult(r, frame) ==
    /\ last_frame' = r.last_frame
    /\ out' = r.cmds
    /\ tty' = TtyAfter(r.cmds)
    /\ wf' = [res |-> r.res, frame |-> frame, before |-> last_frame,
              term |-> term,
              resized |-> wf.res # "none" /\ wf.term # term]

FrameWrite ==
    /\ wf.res \in {"none", "ok"}
    /\ \E frame \in Frames[video.render_size], fail_at \in FailAts :
          \E r \in {write_frame(last_frame, frame, term, video, overflow_checks,
                                fail_at)} :
             WriteFrameResult(r, frame)
    /\ UNCHANGED <<video, overflow_checks, term, pipeVars>>

\* the user resizes the terminal
Resize ==
    /\ proc = "running"
    /\ \E t \in TermSizes \ {term} : term' = t
    /\ UNCHANGED <<video, overflow_checks, tty, last_frame, out, wf, pipeVars>>

NextFrame == FrameWrite \/ Resize

SpecFrame == InitFrame /\ [][NextFrame]_vars

(***************************************************************************)
(* The pipeline: the decoder task of fetch_video, the forwarding loop of   *)
(* main, handle_render, handle_signal_input and the key-input task.        *)
(***************************************************************************)
\* ffprobe_get_fps for a stream whose frame rate is num / den: the integer
\* quotient, or an Err, which ends main before any task is spawned
ffprobe_get_fps(num, den) == IF den # 0 THEN num \div den ELSE Panic

Session(fps, d, len, cap, fs) ==
    [fps |-> fps, duration |-> d, stream_len |-> len, cap_framerate |-> cap,
     fullscreen |-> fs]

\* what is played, and how: a source that holds every frame of its duration,
\* one that ends a second early, a live stream, a source of 30 frames a
\* second that ends early, and one whose probed frame rate is 0
Sessions ==
    { Session(1, Fixed(7), 7, TRUE, FALSE),
      Session(1, Fixed(3), 2, TRUE, FALSE),
      Session(1, Live, 3, TRUE, FALSE), Session(1, Live, 3, TRUE, TRUE),
      Session(30, Fixed(1), 3, TRUE, FALSE),
      Session(ffprobe_get_fps(1, 2), Fixed(1), 1, TRUE, FALSE) }

\* two seconds of 20 frames a second, played to the end
LongSessions ==
    { Session(20, Fixed(2), 40, TRUE, FALSE), Session(20, Fixed(2), 40, FALSE, TRUE) }

\* the microseconds a paint takes
Latencies == {10000, 60000}

\* the picture at position pos of the source
Picture(pos) ==
    LET colour == IF pos % 3 = 0 THEN Green ELSE IF pos % 3 = 1 THEN Black ELSE Dim
    IN  [w |-> 1, h |-> 3, px |-> [c \in {0} \X (0..2) |-> colour]]

Start(sessions) ==
    /\ \E s \in sessions :
          /\ video = [character_mode |-> "Block", no_color |-> FALSE,
                      fullscreen |-> s.fullscreen, pixel_clear_distance |-> 2,
                      render_size |-> <<1, 3>>, fps |-> s.fps,
                      cap_framerate |-> s.cap_framerate, title_len |-> 5]
          /\ duration = s.duration
          /\ stream_len = s.stream_len
    /\ overflow_checks = TRUE
    /\ term \in TermSizes
    /\ tty = PreparedTty
    /\ last_frame = NoFrame
    /\ out = <<>>
    /\ wf = NoCall
    /\ dec = [pos |-> 0, gen |-> 0, open |-> TRUE]
    /\ seek_ch = <<>>
    /\ frame_ch = <<>>
    /\ render_ch = <<>>
    /\ main_pc = "forward"
    /\ render_pc = "start"
    /\ frames_seen = 0
    /\ loc = NoLocals
    /\ frame_times = <<>>
    /\ now = 0
    /\ started = 0
    /\ ft = NoFooter
    /\ proc = "running"
    /\ sent = <<>>
    /\ painted = <<>>
    /\ seeks = 0

Init == Start(Sessions)

InitPlay == Start(LongSessions)

\* a send that puts the item before the ones waiting
send_front(ch, item) == <<item>> \o ch

\* UnboundedSender::send
send(ch, item) == Append(ch, item)

\* a subtraction that does not saturate
plain_sub(a, b) == a - b

\* Duration::saturating_sub
saturating_sub(a, b) == Max(a - b, 0)

\* std_frame_time, in microseconds
std_frame_time(fps) == 1000000 \div fps

\* the terminal after end(): print!(cursor::Show)
Shown(t) == [t EXCEPT !.cursor = TRUE]

\* the terminal after queue!(.., ResetColor, .., Print(..))
ResetAndPrinted(t) == [t EXCEPT !.coloured = FALSE, !.cleared = FALSE]

\* one iteration of the decoder task: decode the next frame, seek if a
\* target waits, then send the frame decoded.  decode() fails at the end of
\* the source, which ends the task and drops frame_tx.
DecoderStep ==
    /\ proc = "running"
    /\ dec.open
    /\ IF dec.pos >= stream_len
       THEN /\ dec' = [dec EXCEPT !.open = FALSE]
            /\ UNCHANGED <<seek_ch, frame_ch, sent>>
       ELSE /\ Len(frame_ch) < MaxQueue
            /\ LET frame == [pos |-> dec.pos, gen |-> dec.gen]
               IN  /\ frame_ch' = send(frame_ch, frame)
                   /\ sent' = Append(sent, frame)
            /\ IF seek_ch # <<>>
               THEN /\ dec' = [dec EXCEPT !.pos = Head(seek_ch), !.gen = dec.gen + 1]
                    /\ seek_ch' = Tail(seek_ch)
               ELSE /\ dec' = [dec EXCEPT !.pos = dec.pos + 1]
                    /\ UNCHANGED seek_ch
    /\ UNCHANGED <<frameVars, duration, stream_len, render_ch, main_pc, render_pc,
                   frames_seen, loc, frame_times, now, started, ft, proc, painted,
                   seeks>>

\* main's forwarding loop, a frame received: send it on, which fails, and
\* panics main, once handle_render has ended and dropped render_recv
MainForward ==
    /\ proc = "running"
    /\ main_pc = "forward"
    /\ frame_ch # <<>>
    /\ frame_ch' = Tail(frame_ch)
    /\ IF render_pc \in {"err", "panic"}
       THEN /\ proc' = "panic"
            /\ UNCHANGED render_ch
       ELSE /\ Len(render_ch) < MaxQueue
            /\ render_ch' = send(render_ch, Head(frame_ch))
            /\ UNCHANGED proc
    /\ UNCHANGED <<frameVars, duration, stream_len, dec, seek_ch, main_pc, render_pc,
                   frames_seen, loc, frame_times, now, started, ft, sent, painted,
                   seeks>>

\* main's forwarding loop, recv() = None: every frame_tx is dropped and no
\* frame waits.  main goes on to await handle_render, render_tx still alive.
MainClosed ==
    /\ proc = "running"
    /\ main_pc = "forward"
    /\ frame_ch = <<>>
    /\ ~dec.open
    /\ main_pc' = "join"
    /\ UNCHANGED <<frameVars, duration, stream_len, dec, seek_ch, frame_ch, render_ch,
                   render_pc, frames_seen, loc, frame_times, now, started, ft, proc,
                   sent, painted, seeks>>

\* handle_render.await?: handle_render returned an error or panicked, and
\* main returns the error.  (handle_render never returns Ok: end() exits.)
MainJoin ==
    /\ proc = "running"
    /\ main_pc = "join"
    /\ render_pc \in {"err", "panic"}
    /\ main_pc' = "returned"
    /\ proc' = "exit1"
    /\ UNCHANGED <<frameVars, duration, stream_len, dec, seek_ch, frame_ch, render_ch,
                   render_pc, frames_seen, loc, frame_times, now, started, ft, sent,
                   painted, seeks>>

\* handle_render up to its loop: the frame interval, which divides by fps,
\* and the header, whose padding is an unchecked subtraction
RenderStart ==
    /\ proc = "running"
    /\ render_pc = "start"
    /\ started' = now
    /\ IF video.fps = 0
       THEN /\ render_pc' = "panic"
            /\ UNCHANGED tty
       ELSE IF ~video.fullscreen /\ header_fails(term[1], term[2], video.title_len)
       THEN /\ render_pc' = "panic"
            /\ UNCHANGED tty
       ELSE /\ render_pc' = "recv"
            /\ tty' = IF video.fullscreen THEN tty ELSE ResetAndPrinted(tty)
    /\ UNCHANGED <<video, overflow_checks, term, last_frame, out, wf, duration,
                   stream_len, dec, seek_ch, frame_ch, render_ch, main_pc,
                   frames_seen, loc, frame_times, now, ft, proc, sent, painted,
                   seeks>>

\* the loop of handle_render from recv() to the paint: count the frame, read
\* the terminal size, paint, measure.  An error of the paint is returned.
\* recv() gives None only once every render_tx is dropped, which main does
\* when it returns; the loop then ends and end() is called.
RenderRecv ==
    /\ proc = "running"
    /\ render_pc = "recv"
    /\ IF render_ch # <<>>
       THEN LET item == Head(render_ch)
                early == seeks = 0 /\ Len(painted) < MaxJitter
            IN  /\ render_ch' = Tail(render_ch)
                /\ frames_seen' = frames_seen + 1
                /\ \E elapsed \in (IF early THEN Latencies ELSE {10000}),
                      fail_at \in (IF early THEN FailAts ELSE {0}) :
                      \E r \in {write_frame(last_frame, Picture(item.pos), term, video,
                                            overflow_checks, fail_at)} :
                         /\ WriteFrameResult(r, Picture(item.pos))
                         /\ now' = now + elapsed
                         /\ IF r.res = "ok"
                            THEN /\ render_pc' = "pace"
                                 /\ painted' = Append(painted,
                                        [pos |-> item.pos, gen |-> item.gen,
                                         stale |-> item.gen < dec.gen])
                                 /\ loc' = [item |-> item, wid |-> term[1],
                                            height |-> term[2], start |-> now,
                                            elapsed |-> elapsed,
                                            sleep_duration |->
                                               saturating_sub(std_frame_time(video.fps),
                                                              elapsed),
                                            slept |-> 0, window |-> <<>>]
                            ELSE /\ render_pc' = IF r.res = "err" THEN "err" ELSE "panic"
                                 /\ UNCHANGED <<painted, loc>>
                /\ UNCHANGED proc
       ELSE /\ main_pc = "returned"
            /\ tty' = Shown(tty)
            /\ proc' = "exit0"
            /\ render_pc' = "ended"
            /\ UNCHANGED <<last_frame, out, wf, render_ch, frames_seen, now, painted,
                           loc>>
    /\ UNCHANGED <<video, overflow_checks, term, duration, stream_len, dec, seek_ch,
                   frame_ch, main_pc, frame_times, started, ft, sent, seeks>>

\* the rest of the iteration: the pacing sleep, the frame-rate window, the
\* footer and the duration check, which calls end()  (loc.window is what
\* calculate_fps is called with.)
RenderPace ==
    /\ proc = "running"
    /\ render_pc = "pace"
    /\ \E slept \in {IF video.cap_framerate THEN loc.sleep_duration ELSE 0} :
       \E pushed \in {Append(frame_times, now + slept)} :
       \E footer \in {IF video.fullscreen THEN NoFooter
                      ELSE footer_main(loc.wid, current_time_of(frames_seen, video.fps),
                                       duration,
                                       fps_text_len(calculate_fps(pushed), video.fps),
                                       frame_time_len(loc.elapsed),
                                       loc.start - started, overflow_checks)} :
       \E reached \in {duration_reached(duration, frames_seen, video.fps)} :
          /\ now' = now + slept
          /\ loc' = [loc EXCEPT !.slept = slept, !.window = pushed]
          /\ frame_times' = IF Len(pushed) > 10
                            THEN SubSeq(pushed, Len(pushed) - 9, Len(pushed))
                            ELSE pushed
          /\ ft' = footer
          /\ IF footer.res = "panic"
             THEN /\ render_pc' = "panic"
                  /\ tty' = [tty EXCEPT !.coloured = FALSE]
                  /\ UNCHANGED proc
             ELSE IF footer.res = "abort"
             THEN /\ proc' = "abort"
                  /\ tty' = [tty EXCEPT !.coloured = FALSE]
                  /\ UNCHANGED render_pc
             ELSE IF reached
             THEN /\ render_pc' = "ended"
                  /\ tty' = Shown(IF video.fullscreen THEN tty ELSE ResetAndPrinted(tty))
                  /\ proc' = "exit0"
             ELSE /\ render_pc' = "recv"
                  /\ tty' = IF video.fullscreen THEN tty ELSE ResetAndPrinted(tty)
                  /\ UNCHANGED proc
    /\ UNCHANGED <<video, overflow_checks, term, last_frame, out, wf, duration,
                   stream_len, dec, seek_ch, frame_ch, render_ch, main_pc,
                   frames_seen, started, sent, painted, seeks>>

\* a handler that is only served while the render loop awaits a frame
SignalWhenIdle ==
    /\ proc = "running"
    /\ render_pc = "recv"
    /\ tty' = Shown([tty EXCEPT !.cleared = FALSE])
    /\ proc' = "exit0"
    /\ UNCHANGED <<video, overflow_checks, term, last_frame, out, wf, duration, stream_len, dec,
                   seek_ch, frame_ch, render_ch, main_pc, render_pc, frames_seen, loc,
                   frame_times, now, started, ft, sent, painted, seeks>>

\* handle_signal_input: Ctrl-C prints a line and calls end()
Signal ==
    /\ proc = "running"
    /\ tty' = Shown([tty EXCEPT !.cleared = FALSE])
    /\ proc' = "exit0"
    /\ UNCHANGED <<video, overflow_checks, term, last_frame, out, wf, duration, stream_len, dec,
                   seek_ch, frame_ch, render_ch, main_pc, render_pc, frames_seen, loc,
                   frame_times, now, started, ft, sent, painted, seeks>>

\* a seek target that is not clamped
seek_position_unclamped(position, direction, fps) == position + direction * 5 * fps

\* the position 5 s before (direction -1) or after (direction 1) the
\* position given, not below 0 (specification, section 4.5)
seek_position(position, direction, fps) == Max(0, position + direction * 5 * fps)

\* the key-input task on a seek key, as the specification describes it
\* (section 4.5): send the target to the decoder's seek channel, move the
\* playback position by 5 s, not below 0, and drain the frames buffered in
\* the decoder-output and render-input channels.  Inert for a live stream.
SeekWhile(allowed) ==
    /\ proc = "running"
    /\ duration.kind = "Fixed"
    /\ video.fps > 0
    /\ dec.open
    /\ seeks < MaxSeeks
    /\ allowed
    /\ \E direction \in {0 - 1, 1} :
          LET position == seek_position(frames_seen, direction, video.fps)
          IN  /\ seek_ch' = send(seek_ch, position)
              /\ frames_seen' = position
    /\ frame_ch' = <<>>
    /\ render_ch' = <<>>
    /\ seeks' = seeks + 1
    /\ sent' = <<>>
    /\ painted' = <<>>
    /\ UNCHANGED <<frameVars, duration, stream_len, dec, main_pc, render_pc, loc,
                   frame_times, now, started, ft, proc>>

\* a seek key pressed in the first moments of the session
SeekKey == SeekWhile(frames_seen < MaxJitter)

Next ==
    \/ DecoderStep
    \/ MainForward
    \/ MainClosed
    \/ MainJoin
    \/ RenderStart
    \/ RenderRecv
    \/ RenderPace
    \/ Signal
    \/ SeekKey

Spec == Init /\ [][Next]_vars

\* a long source played with no seek key pressed
NextPlay ==
    \/ DecoderStep
    \/ MainForward
    \/ MainClosed
    \/ RenderStart
    \/ RenderRecv
    \/ RenderPace
    \/ Signal

SpecPlay == InitPlay /\ [][NextPlay]_vars

\* seven seconds of one frame a second, with seek keys pressed at any moment
SeekSessions == { Session(1, Fixed(7), 7, TRUE, FALSE) }

InitSeek == Start(SeekSessions)

\* a seek key pressed at any position
SeekAnywhere == SeekWhile(TRUE)

NextSeek ==
    \/ DecoderStep
    \/ MainForward
    \/ MainClosed
    \/ MainJoin
    \/ RenderStart
    \/ RenderRecv
    \/ RenderPace
    \/ SeekAnywhere

SpecSeek == InitSeek /\ [][NextSeek]_vars

\* the runtime schedules main and the render task whenever they can run;
\* the decoder may stay in decode() for as long as its source gives nothing
StalledSpec ==
    /\ Spec
    /\ WF_vars(MainForward)
    /\ WF_vars(MainClosed)
    /\ WF_vars(MainJoin)
    /\ WF_vars(RenderStart)
    /\ WF_vars(RenderRecv)
    /\ WF_vars(RenderPace)

\* the runtime schedules every task that can run; nobody has to press a key
\* or send a signal
FairSpec ==
    /\ Spec
    /\ WF_vars(DecoderStep)
    /\ WF_vars(MainForward)
    /\ WF_vars(MainClosed)
    /\ WF_vars(MainJoin)
    /\ WF_vars(RenderStart)
    /\ WF_vars(RenderRecv)
    /\ WF_vars(RenderPace)

(***************************************************************************)
(* The footer on its own: the two compositions, Video::write_footer and    *)
(* the one of handle_render, on terminals of any width from 10 to 50       *)
(* columns.                                                                *)
(***************************************************************************)
FooterWidths == 10..50

InitFooter ==
    /\ video = [character_mode |-> "Block", no_color |-> FALSE, fullscreen |-> FALSE,
                pixel_clear_distance |-> 2, render_size |-> <<1, 3>>, fps |-> 30,
                cap_framerate |-> TRUE, title_len |-> 5]
    /\ overflow_checks \in BOOLEAN
    /\ term \in FooterWidths \X {24}
    /\ tty = PreparedTty
    /\ last_frame = NoFrame
    /\ out = <<>>
    /\ wf = NoCall
    /\ duration \in {Fixed(7), Fixed(360000), Live}
    /\ stream_len = 0
    /\ dec = [pos |-> 0, gen |-> 0, open |-> FALSE]
    /\ seek_ch = <<>>
    /\ frame_ch = <<>>
    /\ render_ch = <<>>
    /\ main_pc = "forward"
    /\ render_pc = "pace"
    /\ frames_seen \in {1, 100}
    /\ loc = NoLocals
    /\ frame_times = <<>>
    /\ now = 0
    /\ started = 0
    /\ ft = NoFooter
    /\ proc = "running"
    /\ sent = <<>>
    /\ painted = <<>>
    /\ seeks = 0

\* what composing the footer as `by` does leaves behind: the composition,
\* the width and the latency it was composed for, and the terminal after
\* MoveTo, ResetColor, Clear(CurrentLine) and, if it got there, Print
FooterComposed(by, footer, elapsed) ==
    /\ ft' = footer @@ [by |-> by]
    /\ loc' = [loc EXCEPT !.wid = term[1], !.height = term[2], !.elapsed = elapsed]
    /\ tty' = IF footer.res = "ok" THEN ResetAndPrinted(tty)
              ELSE [tty EXCEPT !.coloured = FALSE]
    /\ proc' = IF footer.res = "ok" THEN proc ELSE footer.res
    /\ UNCHANGED <<video, overflow_checks, term, last_frame, out, wf, duration,
                   stream_len, dec, seek_ch, frame_ch, render_ch, main_pc, render_pc,
                   frames_seen, frame_times, now, started, sent, painted, seeks>>

\* Video::write_footer
FooterWrite ==
    /\ proc = "running"
    /\ \E elapsed \in Latencies :
          FooterComposed("write_footer",
                         write_footer(term[1], current_time_of(frames_seen, video.fps), duration,
                                      fps_text_len(calculate_fps(frame_times), video.fps),
                                      frame_time_len(elapsed), now - started,
                                      overflow_checks),
                         elapsed)

\* the footer of handle_render
FooterMain ==
    /\ proc = "running"
    /\ \E elapsed \in Latencies :
          FooterComposed("handle_render",
                         footer_main(term[1], current_time_of(frames_seen, video.fps), duration,
                                     fps_text_len(calculate_fps(frame_times), video.fps),
                                     frame_time_len(elapsed), now - started,
                                     overflow_checks),
                         elapsed)

NextFooter == FooterWrite \/ FooterMain

SpecFooter == InitFooter /\ [][NextFooter]_vars

(***************************************************************************)
(* Properties of write_frame.                                              *)
(***************************************************************************)
\* the stride, offsets and cells of the latest call
WfStep == step_size(wf.term[1], wf.term[2], overflow_checks)

WfCells == { SampledCells(wf.frame, WfStep)[i] :
               i \in DOMAIN SampledCells(wf.frame, WfStep) }

WfXOffset == IF wf.frame.w < wf.term[1] THEN (wf.term[1] - wf.frame.w) \div 2 ELSE 0

WfYOffset == IF video.fullscreen THEN 0 ELSE 2

\* the terminal position a sampled cell is painted at
WfPosition(cell) == <<cell[1] + WfXOffset, (cell[2] \div WfStep) + WfYOffset>>

\* how many commands of the latest call paint the cell: a cursor move to its
\* position followed, before the next move, by a print
PaintsOf(cell) ==
    Cardinality({ i \in DOMAIN out :
                    /\ out[i].op = "MoveTo"
                    /\ <<out[i].col, out[i].row>> = WfPosition(cell)
                    /\ \E j \in (i + 1)..Len(out) :
                          /\ out[j].op = "Print"
                          /\ \A k \in (i + 1)..(j - 1) : out[k].op # "MoveTo" })

\* the commands of the latest call that are about the cell's position at all
CommandsFor(cell) ==
    { i \in DOMAIN out :
        out[i].op = "MoveTo" /\ <<out[i].col, out[i].row>> = WfPosition(cell) }

\* C1: between two consecutive frames of the same size, a sampled cell is
\* painted if and only if its pixel is at an RGB distance of at least
\* pixel_clear_distance from the pixel at the same place in the previous
\* frame; a cell below the threshold gets no command at all.
C1_RepaintIffDistance ==
    (wf.res = "ok" /\ wf.before # NoFrame) =>
        \A cell \in WfCells :
           LET p == wf.frame.px[cell]
               q == wf.before.px[cell]
               far == (p[1] - q[1]) * (p[1] - q[1]) + (p[2] - q[2]) * (p[2] - q[2])
                        + (p[3] - q[3]) * (p[3] - q[3])
                      >= video.pixel_clear_distance * video.pixel_clear_distance
           IN  /\ far => PaintsOf(cell) = 1
               /\ ~far => CommandsFor(cell) = {}

\* a second frame in which one sampled cell moved by less than the threshold
\* and was left alone while another reached it and was painted
C1_Witness ==
    /\ wf.res = "ok" /\ wf.before # NoFrame
    /\ video.pixel_clear_distance = 2
    /\ \E a, b \in WfCells :
          /\ wf.frame.px[a] = Dim /\ wf.before.px[a] = Black /\ CommandsFor(a) = {}
          /\ wf.frame.px[b] = Green /\ wf.before.px[b] = Black /\ PaintsOf(b) = 1

\* C2: a write_frame that finds last_frame absent paints every sampled cell,
\* whatever the pixels and the threshold.
C2_FirstFramePaintsAll ==
    (wf.res = "ok" /\ wf.before = NoFrame) =>
        \A cell \in WfCells : PaintsOf(cell) = 1

\* a first frame all of whose pixels are black has been painted in full
C2_Witness ==
    /\ wf.res = "ok" /\ wf.before = NoFrame
    /\ \A c \in DOMAIN wf.frame.px : wf.frame.px[c] = Black
    /\ Cardinality(WfCells) >= 2
    /\ \A cell \in WfCells : PaintsOf(cell) = 1

\* C9 (as claimed): the first write_frame after the terminal changed size
\* repaints every sampled cell.
C9_ResizeRepaintsAll ==
    (wf.res = "ok" /\ wf.resized) => \A cell \in WfCells : PaintsOf(cell) = 1

(***************************************************************************)
(* Properties of the pipeline.                                             *)
(***************************************************************************)
\* the frames painted, without the mark of staleness
PaintedFrames == [i \in DOMAIN painted |-> [pos |-> painted[i].pos, gen |-> painted[i].gen]]

\* C3: as long as no seek key was pressed, the frames painted are, in order
\* and each once, the first frames the decoder sent: the k-th frame painted
\* is the k-th frame sent.
C3_PaintedInSentOrder ==
    seeks = 0 =>
       /\ Len(painted) <= Len(sent)
       /\ PaintedFrames = SubSeq(sent, 1, Len(painted))

\* three frames were painted with no seek while two more waited in the
\* render channel, sent in this order
C3_Witness ==
    /\ seeks = 0
    /\ Len(painted) >= 3
    /\ Len(render_ch) = 2
    /\ render_ch[1].pos < render_ch[2].pos

\* the sessions whose duration check never ends them: a live stream, or a
\* source that ends before current_time comes within 0.05 s of the duration
NeverReachesDuration ==
    \/ duration.kind = "Live"
    \/ \A n \in 1..stream_len : ~duration_reached(duration, n, video.fps)

\* C4: once the decoder has stopped and closed its channel, in a session no
\* duration check ends and no seek disturbed, the process eventually exits.
C4_ClosedStreamExits ==
    (video.fps > 0 /\ seeks = 0 /\ NeverReachesDuration /\ ~dec.open)
       ~> (proc # "running")

\* duration - n / fps < 0.05, exactly
ExactlyReached(n) ==
    /\ duration.kind = "Fixed"
    /\ 20 * (duration.secs * video.fps - n) < video.fps

\* C5: when the duration check has ended a session no seek disturbed, the
\* frame just painted is the first with duration - frames_seen / fps < 0.05.
C5_EndsAtFirstFrameWithin ==
    (render_pc = "ended" /\ seeks = 0) =>
       /\ ExactlyReached(frames_seen)
       /\ ~ExactlyReached(frames_seen - 1)

\* the terminal as it was before the launch
Restored == tty.cursor /\ ~tty.coloured /\ tty.cleared

\* C6: when the process has exited, by end() or by main returning an error,
\* the cursor is visible, the colours are reset and the screen is clear.
C6_RestoredOnExit == proc \in {"exit0", "exit1"} => Restored

\* C7: an iteration of the render loop suspends for
\* max(0, 1,000,000 / fps - elapsed) microseconds when the frame rate is
\* capped and not at all when it is not.
C7_PacingSleep ==
    [][(render_pc = "pace" /\ render_pc' # "pace") =>
          now' - now = IF video.cap_framerate
                       THEN Max(0, (1000000 \div video.fps) - loc.elapsed)
                       ELSE 0]_vars

\* a capped iteration whose paint took longer than the frame interval, and
\* which did not sleep
C7_Witness ==
    /\ render_pc \in {"recv", "ended"}
    /\ frames_seen > 0
    /\ video.cap_framerate
    /\ loc.elapsed > 1000000 \div video.fps
    /\ loc.sleep_duration = 0
    /\ loc.slept = 0
    /\ now = loc.start + loc.elapsed

\* C8: no frame is painted that the decoder decoded before a seek it had
\* applied by then.
C8_NoStaleFramePainted == \A i \in DOMAIN painted : ~painted[i].stale

(***************************************************************************)
(* Properties of the footer.                                               *)
(***************************************************************************)
\* the columns the texts of the composed footer and its fixed padding need
FooterNeeds ==
    LET cur_len == format_time_len(F32Trunc(current_time_of(frames_seen, video.fps)))
        raw     == fps_text_len(calculate_fps(frame_times), video.fps)
        fps_len == IF ft.by = "write_footer" THEN Max(11, raw) ELSE raw
        ft_len  == frame_time_len(loc.elapsed)
    IN  IF duration.kind = "Fixed"
        THEN cur_len + format_time_len(duration.secs) + fps_len + ft_len + 10
        ELSE cur_len + 4 + fps_len + ft_len + 7 + 9

\* C10: a footer composed for a terminal too narrow for its texts and
\* padding is composed without a panic, leaves out the frame-rate and
\* frame-time texts and is no longer than the terminal is wide.
C10_NarrowFooterDegrades ==
    (ft.res # "none" /\ loc.wid < FooterNeeds) =>
       /\ ft.res = "ok"
       /\ ft.dropped
       /\ ft.line_len <= loc.wid


(***************************************************************************)
(* The glyph ramp on its own: write_frame applied once to a frame of one   *)
(* pixel of any brightness, in every character mode, with and without      *)
(* colour.                                                                 *)
(***************************************************************************)
Greys == 0..255

\* the frame of one pixel of brightness grey
GreyFrame(grey) ==
    [w |-> 1, h |-> 1, px |-> [c \in {<<0, 0>>} |-> <<grey, grey, grey>>]]

InitRamp ==
    /\ \E mode \in CharacterModes, nc \in BOOLEAN :
          video = [character_mode |-> mode, no_color |-> nc, fullscreen |-> FALSE,
                   pixel_clear_distance |-> 2, render_size |-> <<1, 1>>,
                   fps |-> 30, cap_framerate |-> TRUE, title_len |-> 5]
    /\ overflow_checks = TRUE
    /\ term = <<80, 24>>
    /\ tty = PreparedTty
    /\ last_frame = NoFrame
    /\ out = <<>>
    /\ wf = NoCall
    /\ PipeIdle

\* the first frame of a session
RampWrite ==
    /\ wf.res = "none"
    /\ \E grey \in Greys :
          \E r \in {write_frame(last_frame, GreyFrame(grey), term, video,
                                overflow_checks, 0)} :
             WriteFrameResult(r, GreyFrame(grey))
    /\ UNCHANGED <<video, overflow_checks, term, pipeVars>>

NextRamp == RampWrite

SpecRamp == InitRamp /\ [][NextRamp]_vars

\* the brightness of the pixel of the call, and the glyphs it printed
WfGrey == get_grey(wf.frame.px[<<0, 0>>])

WfGlyphs == { out[i].glyph : i \in { j \in DOMAIN out : out[j].op = "Print" } }

\* C11: on every mode's ramp, with or without the no-colour blank, the glyph
\* of a pixel of brightness 0..255 is the one at index
\* round(brightness / 255 * (len - 1)); the index lies in 0..len-1, is 0 for
\* brightness 0 and len-1 for brightness 255, and no darker pixel gets a
\* later glyph.
C11_RampIndex ==
    (wf.res = "ok" /\ wf.frame.w = 1 /\ wf.frame.h = 1 /\ wf.before = NoFrame) =>
        LET len == RampLen(video.character_mode, video.no_color)
            idx == (2 * WfGrey * (len - 1) + 255) \div 510
        IN  /\ WfGlyphs = {idx}
            /\ idx \in 0..(len - 1)
            /\ WfGrey = 0 => idx = 0
            /\ WfGrey = 255 => idx = len - 1
            /\ \A darker \in 0..WfGrey : ramp_index(darker, len) <= idx

\* a mid-grey pixel painted on the 73-glyph ramp of AsciiExtended without
\* colour, where rounding and truncating differ
C11_Witness ==
    /\ wf.res = "ok" /\ wf.before = NoFrame
    /\ video.character_mode = "AsciiExtended" /\ video.no_color
    /\ WfGrey = 128
    /\ WfGlyphs = {36}

C14_PaintErrorEndsProcess ==
    (render_pc = "err") ~> (proc # "running")

\* C15: every call of calculate_fps in the render loop is given at most 10
\* timestamps, the most recent ones in order, and gives 0 when they are
\* fewer than 10 or the first equals the last.
C15_FpsWindowOfTen ==
    loc.window # <<>> =>
        /\ Len(loc.window) <= 10
        /\ \A i \in 1..(Len(loc.window) - 1) : loc.window[i] <= loc.window[i + 1]
        /\ loc.window[Len(loc.window)] = frame_times[Len(frame_times)]
        /\ (Len(loc.window) < 10 \/ loc.window[1] = loc.window[Len(loc.window)]) =>
              calculate_fps(loc.window) = <<0, 1>>

(***************************************************************************)
(* The stride on small terminals: write_frame, which calls step_size,      *)
(* applied once to a frame seven pixels high on terminals of one to six    *)
(* rows, in a build with and without overflow checks.                      *)
(***************************************************************************)
StepTerms == {1, 4, 9, 12, 20, 80} \X (1..6)

\* a frame of one column and seven rows of one colour
TallFrame(colour) == [w |-> 1, h |-> 7, px |-> [c \in {0} \X (0..6) |-> colour]]

InitStep ==
    /\ video = [character_mode |-> "Block", no_color |-> FALSE, fullscreen |-> FALSE,
                pixel_clear_distance |-> 2, render_size |-> <<1, 7>>, fps |-> 30,
                cap_framerate |-> TRUE, title_len |-> 5]
    /\ overflow_checks \in BOOLEAN
    /\ term \in StepTerms
    /\ tty = PreparedTty
    /\ last_frame = NoFrame
    /\ out = <<>>
    /\ wf = NoCall
    /\ PipeIdle

\* the first frame of a session
StepWrite ==
    /\ wf.res = "none"
    /\ \E colour \in {Green, Dim} :
          \E r \in {write_frame(last_frame, TallFrame(colour), term, video,
                                overflow_checks, 0)} :
             WriteFrameResult(r, TallFrame(colour))
    /\ UNCHANGED <<video, overflow_checks, term, pipeVars>>

NextStep == StepWrite

SpecStep == InitStep /\ [][NextStep]_vars

\* the rows of the terminal the latest call moved the cursor to
WfRows == { out[i].row : i \in { j \in DOMAIN out : out[j].op = "MoveTo" } }

\* C16: on every terminal of at least one column and one row the stride is
\* s = max(2, floor(width / (height - 2)) - 2), at least 1, so that a first
\* frame is painted on the rows of every s-th pixel row; and a terminal of
\* no more rows than the 2 reserved ones is guarded: the call does not fail
\* (no underflow, no division by zero) and paints with a stride of at
\* least 1.
C16_StepSizeGuarded ==
    (wf.res # "none" /\ wf.before = NoFrame /\ wf.frame.h = 7) =>
        /\ wf.res = "ok"
        /\ IF wf.term[2] > 2
           THEN LET s == Max(2, (wf.term[1] \div (wf.term[2] - 2)) - 2)
                IN  s >= 1 /\ WfRows = { 2 + k : k \in 0..(6 \div s) }
           ELSE \E s \in 1..7 : WfRows = { 2 + k : k \in 0..(6 \div s) }

\* the cursor moves of the latest call, and the cell each of them is for
WfMoves == { i \in DOMAIN out : out[i].op = "MoveTo" }

WfCellAt(i) == CHOOSE cell \in WfCells : WfPosition(cell) = <<out[i].col, out[i].row>>

\* the colour of the last command op before index k of the latest call
LastEmitted(op, k) ==
    LET before == { i \in 1..(k - 1) : out[i].op = op }
    IN  IF before = {} THEN NoColour
        ELSE out[CHOOSE i \in before : \A j \in before : j <= i].colour

\* C17: within one pass of write_frame in colour mode, a repainted cell
\* gets a set-background command only if its colour differs from the
\* background emitted last in that pass, and a set-foreground command only
\* if its foreground differs from the one emitted last in that pass; nothing
\* is remembered from the pass before, so the first repainted cell of every
\* frame sets both.
C17_ColourCommandsDeduplicated ==
    (wf.res = "ok" /\ ~video.no_color) =>
        \A m \in WfMoves :
           LET pixel  == wf.frame.px[WfCellAt(m)]
               color  == ForegroundOf(video.character_mode, pixel)
               bg_set == m > 1 /\ out[m - 1].op = "SetBackgroundColor"
               fg_set == out[m + 1].op = "SetForegroundColor"
               bg_was == LastEmitted("SetBackgroundColor", IF bg_set THEN m - 1 ELSE m)
               fg_was == LastEmitted("SetForegroundColor", m)
           IN  /\ bg_set <=> pixel # bg_was
               /\ bg_set => out[m - 1].colour = pixel
               /\ fg_set <=> color # fg_was
               /\ fg_set => out[m + 1].colour = color
               /\ (\A n \in WfMoves : m <= n) => (bg_set /\ fg_set)

\* a second frame in Ascii mode whose first repainted cell has the colour
\* the previous pass ended with: the background is set again, and the
\* foreground, the same for both cells, is set once
C17_Witness ==
    /\ wf.res = "ok" /\ ~video.no_color /\ video.character_mode = "Ascii"
    /\ wf.frame.w = 1
    /\ wf.before # NoFrame
    /\ wf.before.px[<<0, 0>>] = Black /\ wf.before.px[<<0, 2>>] = Green
    /\ wf.frame.px[<<0, 0>>] = Green /\ wf.frame.px[<<0, 2>>] = Black
    /\ ~wf.resized /\ wf.term = <<80, 24>>
    /\ Len(out) = 7
    /\ out[1] = Cmd("SetBackgroundColor", 0, 0, Green, 0)
    /\ out[3].op = "SetForegroundColor"
    /\ out[5] = Cmd("SetBackgroundColor", 0, 0, Black, 0)
    /\ out[6].op = "MoveTo" /\ out[7].op = "Print"

\* C18: after every call of write_frame that succeeded, last_frame is the
\* frame just processed, every pixel of it whether repainted or not; after
\* a call that failed with an error, last_frame is what it was before.
C18_LastFrameAfterCall ==
    /\ wf.res = "ok" => last_frame = wf.frame
    /\ wf.res = "err" => last_frame = wf.before

\* a second frame, different from the first, whose paint failed: the first
\* frame, stored by the call that succeeded, is still the one kept
C18_Witness ==
    /\ wf.res = "err"
    /\ wf.before # NoFrame
    /\ wf.frame # wf.before
    /\ last_frame = wf.before

\* C19: while no seek occurs the playback position frames_seen starts at 0,
\* is never negative, grows by exactly one with each frame the render loop
\* receives and paints and is changed by nothing else; and the current time
\* the footer shows, and the end-of-stream check uses, is frames_seen / fps.
C19_PositionCountsFrames ==
    /\ frames_seen = 0
    /\ [](/\ frames_seen >= 0
          /\ render_pc \in {"recv", "pace", "ended"} => frames_seen = Len(painted))
    /\ [][/\ frames_seen' # frames_seen =>
                /\ render_pc = "recv" /\ render_ch # <<>>
                /\ render_ch' = Tail(render_ch)
                /\ wf'.frame = Picture(Head(render_ch).pos)
                /\ frames_seen' = frames_seen + 1
          /\ (render_pc = "recv" /\ render_pc' # "recv") =>
                frames_seen' = frames_seen + 1
          /\ (render_pc = "pace" /\ render_pc' # "pace" /\ duration.kind = "Fixed") =>
                LET current_time == CurrentTimes[video.fps][frames_seen]
                IN  /\ ft'.res = "ok" =>
                          ft'.watched = WatchedSpace(Progress(current_time, duration.secs),
                                                     ft'.space)
                    /\ render_pc' = "ended" <=> F32SubLt005(duration.secs, current_time)
         ]_vars

\* the eleventh frame of a source of 20 frames a second painted and its
\* footer drawn for 0.55 s of 2 s
C19_Witness ==
    /\ seeks = 0 /\ video.fps = 20 /\ duration = Fixed(2)
    /\ render_pc = "recv"
    /\ frames_seen = 11 /\ Len(painted) = 11
    /\ ft.res = "ok" /\ ft.space > 0
    /\ ft.watched = WatchedSpace(Progress(CurrentTimes[20][11], 2), ft.space)
    /\ ft.watched > WatchedSpace(Progress(CurrentTimes[20][10], 2), ft.space)

\* C20: for a Fixed duration every footer composed has a bar whose filled
\* part is round(progress * width), progress being current_time / total and
\* width the columns left over by the fixed-width fields; the filled part
\* is between 0 and the width, and filled and unfilled parts add up to it.
C20_FilledIsRoundedProgress ==
    (ft.res = "ok" /\ duration.kind = "Fixed") =>
        LET current_time == current_time_of(frames_seen, video.fps)
            progress     == Progress(current_time, duration.secs)
        IN  /\ ft.watched = F32RoundToInt(F32MulInt(progress, ft.space))
            /\ 0 <= ft.watched /\ ft.watched <= ft.space
            /\ ft.watched + ft.remaining = ft.space

(***************************************************************************)
(* What the terminal shows: write_frame applied to any sequence of frames  *)
(* on a terminal that keeps its size, with the colour every position was   *)
(* last printed in kept in tty.screen.                                      *)
(***************************************************************************)
\* the terminal's cells after the commands cmds[i..]: a Print leaves the
\* background set last at the position moved to last
RECURSIVE ScreenAfter(_, _, _, _, _)
ScreenAfter(screen, cmds, i, bg, pos) ==
    IF i > Len(cmds) THEN screen
    ELSE IF cmds[i].op = "SetBackgroundColor"
    THEN ScreenAfter(screen, cmds, i + 1, cmds[i].colour, pos)
    ELSE IF cmds[i].op = "MoveTo"
    THEN ScreenAfter(screen, cmds, i + 1, bg, <<cmds[i].col, cmds[i].row>>)
    ELSE IF cmds[i].op = "Print"
    THEN ScreenAfter((pos :> bg) @@ screen, cmds, i + 1, bg, pos)
    ELSE ScreenAfter(screen, cmds, i + 1, bg, pos)

InitDrift ==
    /\ video = [character_mode |-> "Block", no_color |-> FALSE, fullscreen |-> FALSE,
                pixel_clear_distance |-> 2, render_size |-> <<1, 3>>, fps |-> 30,
                cap_framerate |-> TRUE, title_len |-> 5]
    /\ overflow_checks = TRUE
    /\ term \in TermSizes
    /\ tty = PreparedTty @@ [screen |-> <<>>]
    /\ last_frame = NoFrame
    /\ out = <<>>
    /\ wf = NoCall
    /\ PipeIdle

\* one call of write_frame, and what the terminal shows after it
DriftWrite ==
    /\ wf.res \in {"none", "ok"}
    /\ \E frame \in Frames[video.render_size] :
          \E r \in {write_frame(last_frame, frame, term, video, overflow_checks, 0)} :
             /\ last_frame' = r.last_frame
             /\ out' = r.cmds
             /\ tty' = [TtyAfter(r.cmds) EXCEPT
                          !.screen = ScreenAfter(tty.screen, r.cmds, 1, NoColour, <<0, 0>>)]
             /\ wf' = [res |-> r.res, frame |-> frame, before |-> last_frame,
                       term |-> term, resized |-> FALSE]
    /\ UNCHANGED <<video, overflow_checks, term, pipeVars>>

NextDrift == DriftWrite

SpecDrift == InitDrift /\ [][NextDrift]_vars

\* C21: on a terminal that keeps its size, after every write_frame the
\* colour shown at every sampled cell's position is closer than
\* pixel_clear_distance to the cell's pixel in the frame just written:
\* changes below the threshold do not add up over several frames.
C21_ShownWithinThreshold ==
    wf.res = "ok" =>
        \A cell \in WfCells :
           /\ WfPosition(cell) \in DOMAIN tty.screen
           /\ ~rgb_distance_ge(tty.screen[WfPosition(cell)], wf.frame.px[cell],
                               video.pixel_clear_distance)

(***************************************************************************)
(* Frames of the size fetch_video asks the decoder for, painted on the     *)
(* terminal the size was computed from.                                    *)
(***************************************************************************)
\* the render size of fetch_video for a terminal of t = <<width, height>>:
\* the terminal's width, and height * step_size less 8 rows of pixels when
\* not in fullscreen
render_size_of(t, fullscreen, checks) ==
    LET render_height == t[2] * step_size(t[1], t[2], checks)
    IN  <<t[1], IF fullscreen THEN render_height ELSE Max(render_height - 8, 0)>>

\* the terminals whose render size has at least one row of pixels
FitTerms ==
    { t \in {4, 5, 7, 8} \X (3..8) : render_size_of(t, FALSE, TRUE)[2] >= 1 }

\* a frame of one colour
UniformFrame(size, colour) ==
    [w |-> size[1], h |-> size[2],
     px |-> [c \in (0..(size[1] - 1)) \X (0..(size[2] - 1)) |-> colour]]

InitFit ==
    /\ term \in FitTerms
    /\ overflow_checks = TRUE
    /\ video = [character_mode |-> "Block", no_color |-> FALSE, fullscreen |-> FALSE,
                pixel_clear_distance |-> 2,
                render_size |-> render_size_of(term, FALSE, overflow_checks),
                fps |-> 30, cap_framerate |-> TRUE, title_len |-> 5]
    /\ tty = PreparedTty
    /\ last_frame = NoFrame
    /\ out = <<>>
    /\ wf = NoCall
    /\ PipeIdle

\* one call of write_frame with a frame of the render size
FitWrite ==
    /\ wf.res \in {"none", "ok"}
    /\ \E colour \in Palette :
          \E r \in {write_frame(last_frame, UniformFrame(video.render_size, colour),
                                term, video, overflow_checks, 0)} :
             WriteFrameResult(r, UniformFrame(video.render_size, colour))
    /\ UNCHANGED <<video, overflow_checks, term, pipeVars>>

NextFit == FitWrite

SpecFit == InitFit /\ [][NextFit]_vars

\* C22: when not in fullscreen, on every terminal of more than 2 rows a
\* frame of the negotiated render size is painted only at rows 2 to
\* terminal_height - 1 and at columns below terminal_width: never on the
\* header row, on or past the footer row, or outside the terminal.
C22_PaintedInsideFrameArea ==
    (wf.res = "ok" /\ ~video.fullscreen /\ wf.term[2] > 2
        /\ <<wf.frame.w, wf.frame.h>> = render_size_of(wf.term, FALSE, overflow_checks)) =>
        \A i \in DOMAIN out :
           out[i].op = "MoveTo" =>
              /\ 2 <= out[i].row /\ out[i].row <= wf.term[2] - 1
              /\ out[i].col < wf.term[1]

\* C23: in a session of Fixed duration whose decoder delivers exactly
\* duration * fps frames, the render loop has painted every one of them
\* when its end-of-stream check ends the session.
C23_EveryFramePaintedAtEnd ==
    (/\ render_pc = "ended"
     /\ duration.kind = "Fixed"
     /\ video.fps >= 1 /\ duration.secs >= 1
     /\ stream_len = duration.secs * video.fps
     /\ seeks = 0) =>
        Len(painted) = stream_len

\* C24: whatever frame rate the probe hands to the render task, the task
\* sets up its frame interval without failing: it never panics before it
\* has received its first frame.
C24_RenderLoopStarts ==
    ~(render_pc = "panic" /\ frames_seen = 0 /\ wf.res = "none"
        /\ ~header_fails(term[1], term[2], video.title_len))
=============================================================================
